---- MODULE Spec2Model ----
(***************************************************************************)
(* xprocess-lock: named cross-process locks on per-name lock files.        *)
(*                                                                         *)
(* The model has three layers.                                             *)
(*   - The pure helpers of src/lib.rs (sanitize, create, default_base_dir) *)
(*     as operators over strings, a string being a sequence of characters  *)
(*     and a character a one-token string.                                 *)
(*   - The operating system as the crate sees it through std::fs: the      *)
(*     directories and files that exist, and the table of open file        *)
(*     descriptions with the advisory whole-file lock each one holds       *)
(*     (flock / LockFileEx: a lock belongs to the open file description,   *)
(*     conflicts are decided per file, closing the description releases).  *)
(*   - The callers: each caller is a thread (blocking build) or a task     *)
(*     with its blocking worker (async build) that creates handles, calls  *)
(*     lock_exclusive / lock_shared step by step, owns the guards it got   *)
(*     and drops them.                                                     *)
(***************************************************************************)
EXTENDS Integers, Sequences, FiniteSets, TLC

\* ------------------------------------------------------------------ bounds

\* Files one process may have open at once (the slots of its descriptor
\* table).
MaxFd == 2
\* Longest lock name drawn when create is checked over all names.
MaxLen == 3

\* ------------------------------------------------------------- characters

\* char::is_ascii_alphanumeric: 'A'..='Z', 'a'..='z', '0'..='9'.
AsciiAlphanumeric ==
    { "A","B","C","D","E","F","G","H","I","J","K","L","M",
      "N","O","P","Q","R","S","T","U","V","W","X","Y","Z",
      "a","b","c","d","e","f","g","h","i","j","k","l","m",
      "n","o","p","q","r","s","t","u","v","w","x","y","z",
      "0","1","2","3","4","5","6","7","8","9" }

\* char::is_whitespace (Unicode White_Space), as far as the inputs drawn
\* here go: space, tab, line feed, and the non-ASCII U+3000.
Whitespace == { " ", "\t", "\n", "U+3000" }

\* The characters names are drawn from: kept ones, ASCII ones that are
\* replaced, whitespace, and non-ASCII ones (written by code point).
Alphabet == { "a", "Z", "7", "-", "_", ".", " ", "U+00E9", "U+3000" }

\* ---------------------------------------------------------- pure helpers

\* The number of bytes of a char in a str (UTF-8): one for ASCII, two for
\* U+00E9, three for U+3000.
Utf8Len(c) == IF c = "U+00E9" THEN 2 ELSE IF c = "U+3000" THEN 3 ELSE 1

\* Mutant: char::is_alphanumeric in place of is_ascii_alphanumeric, which
\* also keeps letters outside ASCII.
sanitizeCharUnicode(c) ==
    IF c \in AsciiAlphanumeric \/ c = "U+00E9" \/ c = "-" \/ c = "_" THEN c ELSE "_"

\* sanitize(s): every char that is ASCII alphanumeric, '-' or '_' is kept,
\* every other char becomes one '_'.
sanitizeChar(c) == IF c \in AsciiAlphanumeric \/ c = "-" \/ c = "_" THEN c ELSE "_"

\* Mutant: s.bytes() in place of s.chars(): every byte of a char that is
\* not kept becomes one '_'.
RECURSIVE sanitizePerByte(_)
sanitizePerByte(s) ==
    IF s = <<>> THEN <<>>
    ELSE (IF sanitizeChar(Head(s)) = Head(s) THEN << Head(s) >>
          ELSE [i \in 1..Utf8Len(Head(s)) |-> "_"]) \o sanitizePerByte(Tail(s))

\* s.chars().map(..).collect(): one output char per input char, in order.
sanitize(s) == [i \in 1..Len(s) |-> sanitizeChar(s[i])]

\* str::trim: the slice without leading and trailing whitespace.
RECURSIVE trimStart(_)
trimStart(s) ==
    IF s # <<>> /\ Head(s) \in Whitespace THEN trimStart(Tail(s)) ELSE s

RECURSIVE trimEnd(_)
trimEnd(s) ==
    IF s # <<>> /\ s[Len(s)] \in Whitespace
    THEN trimEnd(SubSeq(s, 1, Len(s) - 1))
    ELSE s

trim(s) == trimEnd(trimStart(s))

\* The value of XPROCESS_LOCK_DIR when the variable is not set.
Unset == "unset"

\* env::temp_dir().
TempDir == "tmp"

\* default_base_dir(): the override if the variable is set, else
\* <temp dir>/xprocess-lock.  A directory is a sequence of components.
default_base_dir(v) == IF v # Unset THEN v ELSE <<TempDir, "xprocess-lock">>

\* All strings of at most n characters over the alphabet.
AllNames(n) == UNION { [1..k -> Alphabet] : k \in 0..n }

\* format!("{}.lock", sanitize(&name)): the suffix is one token.
LockSuffix == <<".lock">>

\* Mutant: the trimmed name, not the name as given, is sanitized.
createFromTrimmed(name, v) ==
    IF trim(name) = <<>>
    THEN [ok |-> FALSE, err |-> "EmptyName"]
    ELSE [ok |-> TRUE,
          lock_file |-> [dir |-> default_base_dir(v),
                         file |-> sanitize(trim(name)) \o LockSuffix]]

\* XProcessLock::create(name) in a process whose XPROCESS_LOCK_DIR is v:
\* Err(EmptyName) or Ok(XProcessLock { lock_file }).
create(name, v) ==
    IF trim(name) = <<>>
    THEN [ok |-> FALSE, err |-> "EmptyName"]
    ELSE [ok |-> TRUE,
          lock_file |-> [dir |-> default_base_dir(v),
                         file |-> sanitize(name) \o LockSuffix]]

\* ------------------------------------------------------------------ state

\* The callers: each is one thread of a process built with feature
\* "blocking", or one task of a process built with feature "async".
Callers == { "t1", "t2" }

Builds == { "blocking", "async" }

\* enum LockMode.
LockMode == { "Exclusive", "Shared" }

\* The names the callers of the state machine create handles for: "" and
\* " " are rejected, "a.b" and "a_b" sanitize to the same token.
Names == { <<>>, <<" ">>, <<"a", ".", "b">>, <<"a", "_", "b">> }

NoPath == [dir |-> <<>>, file |-> <<>>]
NoHandle == [lock_file |-> NoPath]
NoFile == [path |-> NoPath, lock |-> "none"]
NoRequest == [path |-> NoPath, mode |-> "none"]
NoResult == [kind |-> "None"]
NoScript == [op |-> "none", name |-> <<>>, mode |-> "none", fails |-> {}]

\* The stages of a call the environment can fail.
Stages == { "dir", "open", "lock" }

VARIABLES
    build,      \* build[t]: the feature the caller's binary was compiled with
    lockdir,    \* lockdir[t]: XPROCESS_LOCK_DIR in the caller's process
    handle,     \* handle[t]: the XProcessLock the caller owns
    guards,     \* guards[t]: the LockGuards the caller owns
    pc,         \* pc[t]: where the caller's current lock_* call stands
    req,        \* req[t]: path and mode of the current call
    f,          \* f[t]: the File opened by the current call (0: none)
    steps,      \* steps[t]: the stages the caller's last call attempted
    osfail,     \* osfail[t]: the environment failed a stage of that call
    result,     \* result[t]: what the caller's last operation returned
    dirs,       \* the directories that exist
    files,      \* the lock files that exist, each with its content
    fdt,        \* fdt[t][n]: the file open as descriptor n of the caller's
                \* process: its path and the advisory lock it holds
    script,     \* the operation a driver hands to both builds (parity runs)
    todo,       \* the callers that have not yet started that operation
    cancelled   \* cancelled[t]: the future of the caller's current call was
                \* dropped while it awaited the worker

vars == << build, lockdir, handle, guards, pc, req, f, steps, osfail, result,
           dirs, files, fdt, script, todo, cancelled >>

Fds == 1..MaxFd

OpenFds(t) == { n \in Fds : fdt[t][n] # NoFile }

\* Every open file description: the process and its descriptor.
Open == { d \in Callers \X Fds : fdt[d[1]][d[2]] # NoFile }

\* ------------------------------------------------------- operating system

\* Mutant: both arms of the match call f.lock().
OsLockAlwaysExclusive(mode) == "exclusive"

\* File::lock takes LOCK_EX, File::lock_shared takes LOCK_SH.
OsLock(mode) == IF mode = "Exclusive" THEN "exclusive" ELSE "shared"

\* The mode string of Error::AcquireLock.
ModeStr(mode) == IF mode = "Exclusive" THEN "exclusive" ELSE "shared"

\* Mutant: the lock is kept per directory, whatever the file.
OtherLocksAnyFile(t, n, p) ==
    { fdt[d[1]][d[2]].lock :
        d \in { e \in Open : e # <<t, n>> /\ fdt[e[1]][e[2]].path.dir = p.dir } } \ { "none" }

\* The locks the open file descriptions other than descriptor n of t hold
\* on the file at path p.
OtherLocks(t, n, p) ==
    { fdt[d[1]][d[2]].lock :
        d \in { e \in Open : e # <<t, n>> /\ fdt[e[1]][e[2]].path = p } } \ { "none" }

\* Mutant: an exclusive request waits for exclusive holders only.
GrantableIgnoringShared(t, n, mode) ==
    "exclusive" \notin OtherLocks(t, n, fdt[t][n].path)

\* Mutant: every request waits for every holder, shared ones included.
GrantableNeverShared(t, n, mode) ==
    OtherLocks(t, n, fdt[t][n].path) = {}

\* Mutant: locks owned by the process (fcntl record locks): the locks the
\* caller's own descriptors hold never stand in its way.
GrantableOwnProcess(t, n, mode) ==
    LET others == { fdt[d[1]][d[2]].lock :
                      d \in { e \in Open : e[1] # t /\ fdt[e[1]][e[2]].path = fdt[t][n].path } }
                  \ { "none" } IN
    IF mode = "Exclusive" THEN others = {} ELSE "exclusive" \notin others

\* File::lock / File::lock_shared return once the request is compatible
\* with every lock another description holds on the same file.
Grantable(t, n, mode) ==
    IF mode = "Exclusive"
    THEN OtherLocks(t, n, fdt[t][n].path) = {}
    ELSE "exclusive" \notin OtherLocks(t, n, fdt[t][n].path)

\* OpenOptions::open: the lowest free descriptor of the process.
NewFd(t) ==
    CHOOSE n \in Fds : fdt[t][n] = NoFile /\ \A m \in Fds : m < n => fdt[t][m] # NoFile

\* Mutant: .truncate(true): an existing file is emptied on open.
OpenedTruncating(p) ==
    { x \in files : x.path # p } \cup { [path |-> p, data |-> <<>>] }

\* The files after OpenOptions::new().read(true).write(true).create(true)
\* .truncate(false).open(p): a file that exists stays as it is, a missing
\* one is created empty.
Opened(p) ==
    IF \E x \in files : x.path = p
    THEN files
    ELSE files \cup { [path |-> p, data |-> <<>>] }

\* Mutant: the File is leaked (mem::forget) instead of dropped.
ClosedLeaked(t, n) == fdt

\* Dropping a File closes it; the close releases the lock it holds.
Closed(t, n) == [fdt EXCEPT ![t][n] = NoFile]

\* ---------------------------------------------------------------- actions

\* XProcessLock::create(name): pure, touches neither directories nor files.
\* The result keeps the argument beside the outcome.
Create(t, name) ==
    /\ pc[t] = "idle"
    /\ LET r == create(name, lockdir[t]) IN
         IF r.ok
         THEN /\ handle' = [handle EXCEPT ![t] = [lock_file |-> r.lock_file]]
              /\ result' = [result EXCEPT ![t] = [kind |-> "Created", name |-> name]]
         ELSE /\ handle' = handle
              /\ result' = [result EXCEPT ![t] = [kind |-> r.err, name |-> name]]
    /\ UNCHANGED << build, lockdir, guards, pc, req, f, steps, osfail, dirs, files, fdt >>

\* Entry of lock_exclusive / lock_shared: open_locked(&self.lock_file, mode)
\* in the blocking build, open_locked_async(self.lock_file.clone(), mode) in
\* the async build.  The guard keeps the caller's open files within MaxFd.
Call(t, mode) ==
    /\ pc[t] = "idle"
    /\ handle[t] # NoHandle
    /\ Cardinality(OpenFds(t)) < MaxFd
    /\ pc' = [pc EXCEPT ![t] = IF build[t] = "async" THEN "adir" ELSE "dir"]
    /\ req' = [req EXCEPT ![t] = [path |-> handle[t].lock_file, mode |-> mode]]
    /\ f' = [f EXCEPT ![t] = 0]
    /\ steps' = [steps EXCEPT ![t] = <<>>]
    /\ osfail' = [osfail EXCEPT ![t] = FALSE]
    /\ result' = [result EXCEPT ![t] = NoResult]
    /\ UNCHANGED << build, lockdir, handle, guards, dirs, files, fdt >>

lock_exclusive(t) == Call(t, "Exclusive")

lock_shared(t) == Call(t, "Shared")

\* How a call of open_locked ends with r, fd being the File of Ok(f): the
\* blocking build returns to the caller, Ok(f) becoming Ok(LockGuard(f)); in
\* the async build r is the worker's output, which the awaiting task picks
\* up in Resume.
Return(t, r, fd) ==
    IF build[t] = "async"
    THEN /\ pc' = [pc EXCEPT ![t] = "join"]
         /\ result' = [result EXCEPT ![t] = r]
         /\ f' = [f EXCEPT ![t] = fd]
         /\ UNCHANGED << guards, req >>
    ELSE /\ pc' = [pc EXCEPT ![t] = "idle"]
         /\ result' = [result EXCEPT ![t] = r]
         /\ f' = [f EXCEPT ![t] = 0]
         /\ req' = [req EXCEPT ![t] = NoRequest]
         /\ guards' = [guards EXCEPT ![t] =
                IF r.kind = "Ok"
                THEN @ \cup { [file |-> fd, acquired |-> req[t].mode] }
                ELSE @]

\* open_locked_async: tokio::fs::create_dir_all(dir).await on the task.
\* ok: whether the environment lets the directory be created.
AsyncDirStep(t, ok) ==
    /\ pc[t] = "adir"
    /\ steps' = [steps EXCEPT ![t] = Append(@, "dir")]
    /\ osfail' = [osfail EXCEPT ![t] = ~ok]
    /\ IF ok
       THEN /\ pc' = [pc EXCEPT ![t] = "spawn"]
            /\ result' = result
            /\ dirs' = dirs \cup { req[t].path.dir }
       ELSE /\ pc' = [pc EXCEPT ![t] = "idle"]
            /\ result' = [result EXCEPT ![t] = [kind |-> "CreateDir", path |-> req[t].path.dir]]
            /\ dirs' = dirs
    /\ req' = [req EXCEPT ![t] = IF ok THEN @ ELSE NoRequest]
    /\ UNCHANGED << build, lockdir, handle, guards, f, files, fdt >>

\* Mutant: open_locked is called on the task itself, not handed to
\* spawn_blocking, so the runtime thread runs it.
SpawnStepInline(t, ok) ==
    /\ pc[t] = "spawn"
    /\ steps' = [steps EXCEPT ![t] = Append(@, "inline")]
    /\ pc' = [pc EXCEPT ![t] = "dir"]
    /\ UNCHANGED << build, lockdir, handle, guards, req, f, osfail, result, dirs, files, fdt >>

\* Mutant: a failed join is put in the context of AcquireLock.
SpawnStepAsAcquireLock(t, ok) ==
    /\ pc[t] = "spawn"
    /\ steps' = [steps EXCEPT ![t] = Append(@, "spawn")]
    /\ IF ok
       THEN /\ pc' = [pc EXCEPT ![t] = "dir"]
            /\ result' = result
       ELSE /\ pc' = [pc EXCEPT ![t] = "idle"]
            /\ result' = [result EXCEPT ![t] =
                   [kind |-> "AcquireLock", path |-> req[t].path, mode |-> ModeStr(req[t].mode)]]
    /\ req' = [req EXCEPT ![t] = IF ok THEN @ ELSE NoRequest]
    /\ UNCHANGED << build, lockdir, handle, guards, f, osfail, dirs, files, fdt >>

\* open_locked_async: spawn_blocking(move || open_locked(&path, mode)).
\* ok: the worker runs; otherwise it is cancelled first and the join fails.
SpawnStep(t, ok) ==
    /\ pc[t] = "spawn"
    /\ steps' = [steps EXCEPT ![t] = Append(@, "spawn")]
    /\ IF ok
       THEN /\ pc' = [pc EXCEPT ![t] = "dir"]
            /\ result' = result
       ELSE /\ pc' = [pc EXCEPT ![t] = "idle"]
            /\ result' = [result EXCEPT ![t] = [kind |-> "JoinBlocking"]]
    /\ req' = [req EXCEPT ![t] = IF ok THEN @ ELSE NoRequest]
    /\ UNCHANGED << build, lockdir, handle, guards, f, osfail, dirs, files, fdt >>

\* Mutant: the result of create_dir_all is dropped (no `?`), so the call
\* goes on to open the file whatever happened.
DirStepIgnoringFailure(t, ok) ==
    /\ pc[t] = "dir"
    /\ steps' = [steps EXCEPT ![t] = Append(@, "dir")]
    /\ osfail' = [osfail EXCEPT ![t] = ~ok]
    /\ pc' = [pc EXCEPT ![t] = "open"]
    /\ dirs' = IF ok THEN dirs \cup { req[t].path.dir } ELSE dirs
    /\ UNCHANGED << build, lockdir, handle, guards, req, f, result, files, fdt >>

\* open_locked: std::fs::create_dir_all(dir) on path.parent().
DirStep(t, ok) ==
    /\ pc[t] = "dir"
    /\ steps' = [steps EXCEPT ![t] = Append(@, "dir")]
    /\ osfail' = [osfail EXCEPT ![t] = ~ok]
    /\ IF ok
       THEN /\ pc' = [pc EXCEPT ![t] = "open"]
            /\ dirs' = dirs \cup { req[t].path.dir }
            /\ UNCHANGED << result, guards, req, f >>
       ELSE /\ Return(t, [kind |-> "CreateDir", path |-> req[t].path.dir], 0)
            /\ dirs' = dirs
    /\ UNCHANGED << build, lockdir, handle, files, fdt >>

\* open_locked: open_lock_file(path), read + write + create, no truncate.
OpenStep(t, ok) ==
    /\ pc[t] = "open"
    /\ steps' = [steps EXCEPT ![t] = Append(@, "open")]
    /\ osfail' = [osfail EXCEPT ![t] = ~ok]
    /\ IF ok
       THEN /\ f' = [f EXCEPT ![t] = NewFd(t)]
            /\ fdt' = [fdt EXCEPT ![t][NewFd(t)] = [path |-> req[t].path, lock |-> "none"]]
            /\ files' = Opened(req[t].path)
            /\ pc' = [pc EXCEPT ![t] = "lock"]
            /\ UNCHANGED << result, guards, req >>
       ELSE /\ Return(t, [kind |-> "OpenLockFile", path |-> req[t].path], 0)
            /\ UNCHANGED << files, fdt >>
    /\ UNCHANGED << build, lockdir, handle, dirs >>

\* Mutant: try_lock / try_lock_shared in place of the blocking calls: a
\* request that cannot be granted comes back at once as an error.
LockStepNonBlocking(t, ok) ==
    /\ pc[t] = "lock"
    /\ steps' = [steps EXCEPT ![t] = Append(@, "lock")]
    /\ osfail' = [osfail EXCEPT ![t] = ~ok]
    /\ IF ok /\ Grantable(t, f[t], req[t].mode)
       THEN /\ fdt' = [fdt EXCEPT ![t][f[t]].lock = OsLock(req[t].mode)]
            /\ Return(t, [kind |-> "Ok"], f[t])
       ELSE /\ fdt' = Closed(t, f[t])
            /\ Return(t, [kind |-> "AcquireLock", path |-> req[t].path,
                          mode |-> ModeStr(req[t].mode)], 0)
    /\ UNCHANGED << build, lockdir, handle, dirs, files >>

\* Mutant: on a failed OS lock call the File is kept alive (stored away)
\* instead of being dropped by the early return.
LockStepKeepingFile(t, ok) ==
    /\ pc[t] = "lock"
    /\ steps' = [steps EXCEPT ![t] = Append(@, "lock")]
    /\ osfail' = [osfail EXCEPT ![t] = ~ok]
    /\ IF ok
       THEN /\ Grantable(t, f[t], req[t].mode)
            /\ fdt' = [fdt EXCEPT ![t][f[t]].lock = OsLock(req[t].mode)]
            /\ Return(t, [kind |-> "Ok"], f[t])
       ELSE /\ fdt' = fdt
            /\ Return(t, [kind |-> "AcquireLock", path |-> req[t].path,
                          mode |-> ModeStr(req[t].mode)], 0)
    /\ UNCHANGED << build, lockdir, handle, dirs, files >>

\* open_locked: f.lock() or f.lock_shared() by mode.  ok: the OS call
\* blocks until the lock is grantable, takes it, and open_locked returns
\* Ok(f); otherwise the OS call fails and `?` drops f.
LockStep(t, ok) ==
    /\ pc[t] = "lock"
    /\ steps' = [steps EXCEPT ![t] = Append(@, "lock")]
    /\ osfail' = [osfail EXCEPT ![t] = ~ok]
    /\ IF ok
       THEN /\ Grantable(t, f[t], req[t].mode)
            /\ fdt' = [fdt EXCEPT ![t][f[t]].lock = OsLock(req[t].mode)]
            /\ Return(t, [kind |-> "Ok"], f[t])
       ELSE /\ fdt' = Closed(t, f[t])
            /\ Return(t, [kind |-> "AcquireLock", path |-> req[t].path,
                          mode |-> ModeStr(req[t].mode)], 0)
    /\ UNCHANGED << build, lockdir, handle, dirs, files >>

\* Mutant: the worker's own error is reported as a failed join.
ResumeAsJoinError(t) ==
    /\ pc[t] = "join"
    /\ ~cancelled[t]
    /\ pc' = [pc EXCEPT ![t] = "idle"]
    /\ guards' = [guards EXCEPT ![t] =
           IF result[t].kind = "Ok"
           THEN @ \cup { [file |-> f[t], acquired |-> req[t].mode] }
           ELSE @]
    /\ result' = [result EXCEPT ![t] =
           IF result[t].kind = "Ok" THEN @ ELSE [kind |-> "JoinBlocking"]]
    /\ req' = [req EXCEPT ![t] = NoRequest]
    /\ f' = [f EXCEPT ![t] = 0]
    /\ UNCHANGED << build, lockdir, handle, steps, osfail, dirs, files, fdt >>

\* The async lock_* after .await: the join succeeded, `?` passes the
\* worker's error on, Ok(guard) becomes Ok(LockGuard(guard)).  A future
\* that was dropped is never polled again.
Resume(t) ==
    /\ pc[t] = "join"
    /\ ~cancelled[t]
    /\ pc' = [pc EXCEPT ![t] = "idle"]
    /\ guards' = [guards EXCEPT ![t] =
           IF result[t].kind = "Ok"
           THEN @ \cup { [file |-> f[t], acquired |-> req[t].mode] }
           ELSE @]
    /\ req' = [req EXCEPT ![t] = NoRequest]
    /\ f' = [f EXCEPT ![t] = 0]
    /\ UNCHANGED << build, lockdir, handle, steps, osfail, result, dirs, files, fdt >>

\* The future of an async lock_* call is dropped (its task aborted, a
\* select! or timeout won by another branch) while it awaits the JoinHandle
\* of spawn_blocking.  The handle is dropped with it; the closure, once on
\* the blocking pool, is not stopped.
Cancel(t) ==
    /\ build[t] = "async"
    /\ pc[t] \in { "dir", "open", "lock", "join" }
    /\ ~cancelled[t]
    /\ cancelled' = [cancelled EXCEPT ![t] = TRUE]
    /\ UNCHANGED << build, lockdir, handle, guards, pc, req, f, steps, osfail, result,
                    dirs, files, fdt, script, todo >>

\* Mutant: the output of a worker nobody awaits is kept alive for good.
DiscardLeaking(t) ==
    /\ pc[t] = "join"
    /\ cancelled[t]
    /\ pc' = [pc EXCEPT ![t] = "idle"]
    /\ result' = [result EXCEPT ![t] = [kind |-> "Cancelled"]]
    /\ f' = [f EXCEPT ![t] = 0]
    /\ req' = [req EXCEPT ![t] = NoRequest]
    /\ cancelled' = [cancelled EXCEPT ![t] = FALSE]
    /\ UNCHANGED << build, lockdir, handle, guards, steps, osfail, dirs, files, fdt,
                    script, todo >>

\* The worker of a dropped call has finished: nobody holds its JoinHandle,
\* so its output, Result<File>, is dropped; a File in it is closed.  The
\* caller gets nothing.
Discard(t) ==
    /\ pc[t] = "join"
    /\ cancelled[t]
    /\ fdt' = IF result[t].kind = "Ok" THEN Closed(t, f[t]) ELSE fdt
    /\ pc' = [pc EXCEPT ![t] = "idle"]
    /\ result' = [result EXCEPT ![t] = [kind |-> "Cancelled"]]
    /\ f' = [f EXCEPT ![t] = 0]
    /\ req' = [req EXCEPT ![t] = NoRequest]
    /\ cancelled' = [cancelled EXCEPT ![t] = FALSE]
    /\ UNCHANGED << build, lockdir, handle, guards, steps, osfail, dirs, files,
                    script, todo >>

\* Drop of a LockGuard at the end of its scope: its File is dropped, which
\* closes it.
DropGuard(t, g) ==
    /\ pc[t] = "idle"
    /\ g \in guards[t]
    /\ guards' = [guards EXCEPT ![t] = @ \ { g }]
    /\ fdt' = Closed(t, g.file)
    /\ UNCHANGED << build, lockdir, handle, pc, req, f, steps, osfail, result, dirs, files >>

\* Mutant: unlock forgets the guard instead of dropping it.
unlockForgetting(t, g) ==
    /\ pc[t] = "idle"
    /\ g \in guards[t]
    /\ guards' = [guards EXCEPT ![t] = @ \ { g }]
    /\ UNCHANGED << build, lockdir, handle, pc, req, f, steps, osfail, result, dirs, files, fdt >>

\* LockGuard::unlock(self): the guard is moved in and dropped.
unlock(t, g) ==
    /\ pc[t] = "idle"
    /\ g \in guards[t]
    /\ guards' = [guards EXCEPT ![t] = @ \ { g }]
    /\ fdt' = Closed(t, g.file)
    /\ UNCHANGED << build, lockdir, handle, pc, req, f, steps, osfail, result, dirs, files >>

\* ------------------------------------------------------------ specification

InitCommon ==
    /\ handle = [t \in Callers |-> NoHandle]
    /\ guards = [t \in Callers |-> {}]
    /\ pc = [t \in Callers |-> "idle"]
    /\ req = [t \in Callers |-> NoRequest]
    /\ f = [t \in Callers |-> 0]
    /\ steps = [t \in Callers |-> <<>>]
    /\ osfail = [t \in Callers |-> FALSE]
    /\ result = [t \in Callers |-> NoResult]
    /\ dirs = {}
    /\ files = {}
    /\ fdt = [t \in Callers |-> [n \in Fds |-> NoFile]]
    /\ script = NoScript
    /\ todo = {}
    /\ cancelled = [t \in Callers |-> FALSE]

\* One build for all callers, all processes with XPROCESS_LOCK_DIR unset.
Init ==
    /\ \E b \in Builds : build = [t \in Callers |-> b]
    /\ lockdir = [t \in Callers |-> Unset]
    /\ InitCommon

\* The lock file of the names "a.b" and "a_b" with XPROCESS_LOCK_DIR unset.
UsualPath == [dir |-> default_base_dir(Unset), file |-> sanitize(<< "a", "_", "b" >>) \o LockSuffix]

\* The callers start where an earlier run, or somebody else, has left the
\* lock directory and the lock file, the file with content.
ContentInit ==
    /\ \E b \in Builds : build = [t \in Callers |-> b]
    /\ lockdir = [t \in Callers |-> Unset]
    /\ handle = [t \in Callers |-> NoHandle]
    /\ guards = [t \in Callers |-> {}]
    /\ pc = [t \in Callers |-> "idle"]
    /\ req = [t \in Callers |-> NoRequest]
    /\ f = [t \in Callers |-> 0]
    /\ steps = [t \in Callers |-> <<>>]
    /\ osfail = [t \in Callers |-> FALSE]
    /\ result = [t \in Callers |-> NoResult]
    /\ dirs = { UsualPath.dir }
    /\ files = { [path |-> UsualPath, data |-> << "p", "i", "d" >>] }
    /\ fdt = [t \in Callers |-> [n \in Fds |-> NoFile]]
    /\ script = NoScript
    /\ todo = {}
    /\ cancelled = [t \in Callers |-> FALSE]

\* Nothing drives the callers.
Solo == UNCHANGED << script, todo, cancelled >>

\* The callers act on their own, the environment failing any stage it likes.
Next ==
    \E t \in Callers :
        \/ \E name \in Names : Create(t, name) /\ Solo
        \/ lock_exclusive(t) /\ Solo
        \/ lock_shared(t) /\ Solo
        \/ \E ok \in BOOLEAN : AsyncDirStep(t, ok) /\ Solo
        \/ \E ok \in BOOLEAN : SpawnStep(t, ok) /\ Solo
        \/ \E ok \in BOOLEAN : DirStep(t, ok) /\ Solo
        \/ \E ok \in BOOLEAN : OpenStep(t, ok) /\ Solo
        \/ \E ok \in BOOLEAN : LockStep(t, ok) /\ Solo
        \/ Resume(t) /\ Solo
        \/ \E g \in guards[t] : DropGuard(t, g) /\ Solo
        \/ \E g \in guards[t] : unlock(t, g) /\ Solo

Spec == Init /\ [][Next]_vars

ContentSpec == ContentInit /\ [][Next]_vars

\* Names for handles that meet or miss each other: "a.b" and "a_b" differ
\* and sanitize to one token, "7" sanitizes to another.
ContendNames == { << "a", ".", "b" >>, << "a", "_", "b" >>, << "7" >> }

\* The callers of the blocking build with handles for those names.
ContendInit ==
    /\ build = [t \in Callers |-> "blocking"]
    /\ lockdir = [t \in Callers |-> Unset]
    /\ InitCommon

ContendNext ==
    \E t \in Callers :
        \/ \E name \in ContendNames : Create(t, name) /\ Solo
        \/ lock_exclusive(t) /\ Solo
        \/ lock_shared(t) /\ Solo
        \/ \E ok \in BOOLEAN : DirStep(t, ok) /\ Solo
        \/ \E ok \in BOOLEAN : OpenStep(t, ok) /\ Solo
        \/ \E ok \in BOOLEAN : LockStep(t, ok) /\ Solo
        \/ \E g \in guards[t] : DropGuard(t, g) /\ Solo
        \/ \E g \in guards[t] : unlock(t, g) /\ Solo

ContendSpec == ContendInit /\ [][ContendNext]_vars

\* create alone: a first call with any name of at most MaxLen characters,
\* then further calls with the names of Names.
CreateNext ==
    \E name \in (IF result["t1"] = NoResult THEN AllNames(MaxLen) ELSE Names) :
        Create("t1", name) /\ Solo

CreateSpec == Init /\ [][CreateNext]_vars

\* What env::var_os("XPROCESS_LOCK_DIR") finds in a process: nothing, the
\* empty string, a directory, the same directory with a trailing separator
\* (an empty last component).
EnvValues == { Unset, <<>>, << "tmp", "custom" >>, << "tmp", "custom", "" >> }

\* create in processes that differ in XPROCESS_LOCK_DIR.
EnvInit ==
    /\ \E b \in Builds : build = [t \in Callers |-> b]
    /\ \E v \in EnvValues : lockdir = [t \in Callers |-> v]
    /\ InitCommon

EnvSpec == EnvInit /\ [][CreateNext]_vars

\* The open_locked call of t runs on a thread of the blocking pool:
\* spawn_blocking has handed it over.
OnBlockingPool(t) == \E i \in DOMAIN steps[t] : steps[t][i] = "spawn"

\* The runtime thread is inside blocking code of task t (open_locked called
\* on the task), so it polls nobody until that code returns.
OccupiesRuntime(t) ==
    build[t] = "async" /\ pc[t] \in { "dir", "open", "lock" } /\ ~OnBlockingPool(t)

\* The runtime thread can poll task t: no other task keeps it.
Poll(t) == \A u \in Callers \ { t } : ~OccupiesRuntime(u)

\* Both callers are tasks on one current-thread runtime.
SchedInit ==
    /\ build = [t \in Callers |-> "async"]
    /\ lockdir = [t \in Callers |-> Unset]
    /\ InitCommon

\* What a task does, it does when the runtime thread polls it; the blocking
\* sequence runs on the thread it was given to.
SchedNext ==
    \E t \in Callers :
        \/ \E name \in Names : Poll(t) /\ Create(t, name) /\ Solo
        \/ Poll(t) /\ lock_exclusive(t) /\ Solo
        \/ Poll(t) /\ lock_shared(t) /\ Solo
        \/ \E ok \in BOOLEAN : Poll(t) /\ AsyncDirStep(t, ok) /\ Solo
        \/ \E ok \in BOOLEAN : Poll(t) /\ SpawnStep(t, ok) /\ Solo
        \/ \E ok \in BOOLEAN : DirStep(t, ok) /\ Solo
        \/ \E ok \in BOOLEAN : OpenStep(t, ok) /\ Solo
        \/ \E ok \in BOOLEAN : LockStep(t, ok) /\ Solo
        \/ Poll(t) /\ Resume(t) /\ Solo
        \/ \E g \in guards[t] : Poll(t) /\ DropGuard(t, g) /\ Solo
        \/ \E g \in guards[t] : Poll(t) /\ unlock(t, g) /\ Solo

\* The OS wakes a blocked lock call once the lock is grantable and stays
\* so; the runtime polls a task whose worker has finished.
SchedSpec ==
    /\ SchedInit
    /\ [][SchedNext]_vars
    /\ \A t \in Callers :
          /\ WF_vars(LockStep(t, TRUE) /\ Solo)
          /\ WF_vars(Poll(t) /\ Resume(t) /\ Solo)

\* Tasks of the async build whose calls may be dropped while they await.
CancelNext ==
    \/ Next
    \/ \E t \in Callers : Cancel(t)
    \/ \E t \in Callers : Discard(t)

\* The OS wakes a blocked lock call once the lock is grantable and stays
\* so; the runtime resumes a task whose worker has finished, and the pool
\* thread of a finished worker nobody awaits drops the output.
CancelSpec ==
    /\ SchedInit
    /\ [][CancelNext]_vars
    /\ \A t \in Callers :
          /\ WF_vars(LockStep(t, TRUE) /\ Solo)
          /\ WF_vars(Resume(t) /\ Solo)
          /\ WF_vars(Discard(t))

\* Parity runs: caller t1 is a process of the blocking build, t2 one of the
\* async build, each with a lock directory of its own, so that neither
\* meets the other's locks.  A driver hands both the same operations one at
\* a time, a lock call together with the stages the environment fails, and
\* the next one when both are back.
ParityInit ==
    /\ build = [t \in Callers |-> IF t = "t1" THEN "blocking" ELSE "async"]
    /\ lockdir = [t \in Callers |-> IF t = "t1" THEN << "sync" >> ELSE << "async" >>]
    /\ InitCommon

Scripts ==
    { [op |-> "create", name |-> n, mode |-> "none", fails |-> {}] : n \in Names }
    \cup { [op |-> "lock", name |-> <<>>, mode |-> m, fails |-> c] :
             m \in LockMode, c \in SUBSET Stages }
    \cup { [op |-> "release", name |-> <<>>, mode |-> m, fails |-> {}] : m \in LockMode }

\* The driver hands out s, an operation the blocking build can start.
Issue(s) ==
    /\ todo = {}
    /\ \A t \in Callers : pc[t] = "idle"
    /\ s.op = "lock" => (handle["t1"] # NoHandle /\ Cardinality(OpenFds("t1")) < MaxFd)
    /\ s.op = "release" => \E g \in guards["t1"] : g.acquired = s.mode
    /\ script' = s
    /\ todo' = Callers
    /\ UNCHANGED << build, lockdir, handle, guards, pc, req, f, steps, osfail, result,
                    dirs, files, fdt, cancelled >>

\* A caller starts the operation handed out.
Start(t) ==
    /\ t \in todo
    /\ todo' = todo \ { t }
    /\ UNCHANGED << script, cancelled >>
    /\ \/ script.op = "create" /\ Create(t, script.name)
       \/ script.op = "lock" /\ script.mode = "Exclusive" /\ lock_exclusive(t)
       \/ script.op = "lock" /\ script.mode = "Shared" /\ lock_shared(t)
       \/ script.op = "release" /\ \E g \in guards[t] : g.acquired = script.mode /\ DropGuard(t, g)
       \/ script.op = "release" /\ \E g \in guards[t] : g.acquired = script.mode /\ unlock(t, g)

\* A caller's lock call goes on under the conditions handed out with it;
\* the worker of the async build runs to completion.
Run(t) ==
    /\ UNCHANGED << script, todo, cancelled >>
    /\ \/ AsyncDirStep(t, "dir" \notin script.fails)
       \/ SpawnStep(t, TRUE)
       \/ DirStep(t, "dir" \notin script.fails)
       \/ OpenStep(t, "open" \notin script.fails)
       \/ LockStep(t, "lock" \notin script.fails)
       \/ Resume(t)

ParityNext ==
    \/ \E s \in Scripts : Issue(s)
    \/ \E t \in Callers : Start(t)
    \/ \E t \in Callers : Run(t)

\* Each caller starts what it is handed, and its call goes on whenever it
\* can: the thread runs, the OS grants a grantable lock, the task resumes.
ParitySpec ==
    /\ ParityInit
    /\ [][ParityNext]_vars
    /\ \A t \in Callers : WF_vars(Start(t)) /\ WF_vars(Run(t))

\* The OS wakes a blocked lock call once the lock is grantable and stays
\* so; the runtime resumes a task whose worker has finished.
Fairness ==
    \A t \in Callers : WF_vars(LockStep(t, TRUE) /\ Solo) /\ WF_vars(Resume(t) /\ Solo)

FairSpec == Spec /\ Fairness

\* ------------------------------------------------------------------ claims

\* The lock file a guard's File is open on.
GuardPath(t, g) == fdt[t][g.file].path

\* Every guard that exists, with its owner.
AllGuards == { x \in Callers \X (Fds \X LockMode) :
                 [file |-> x[2][1], acquired |-> x[2][2]] \in guards[x[1]] }

\* The holders of the lock file at p in mode m: the guards, and the Files
\* async workers have locked and not yet handed to their tasks.
Holders(p, m) ==
    { <<x[1], x[2][1]>> : x \in { y \in AllGuards :
          y[2][2] = m /\ fdt[y[1]][y[2][1]].path = p } }
    \cup { <<t, f[t]>> : t \in { u \in Callers :
          pc[u] = "join" /\ result[u].kind = "Ok" /\ req[u].mode = m /\ req[u].path = p } }

\* C1: mutual exclusion.  Whenever a guard obtained by lock_exclusive
\* exists, no other guard, shared or exclusive, exists on the same lock
\* file, whichever caller, handle or process owns it.
C1_MutualExclusion ==
    \A t \in Callers, u \in Callers :
        \A g \in guards[t], h \in guards[u] :
            (<<t, g>> # <<u, h>> /\ g.acquired = "Exclusive")
                => GuardPath(t, g) # GuardPath(u, h)

\* An exclusive guard is held while another caller's request for the same
\* file waits in the OS lock call.
C1_Witness ==
    \E t \in Callers, u \in Callers :
        /\ t # u
        /\ pc[u] = "lock"
        /\ \E g \in guards[t] : g.acquired = "Exclusive" /\ GuardPath(t, g) = req[u].path

\* C2: a shared request is blocked by an exclusive holder and by nothing
\* else: a lock_shared call waiting in the OS lock call can be granted
\* exactly when no exclusive holder of its lock file exists, however many
\* shared guards other handles hold.
C2_SharedOnlyBlockedByExclusive ==
    \A t \in Callers :
        (pc[t] = "lock" /\ req[t].mode = "Shared")
            => (Grantable(t, f[t], "Shared") <=> Holders(req[t].path, "Exclusive") = {})

\* Two callers, each through its own handle, hold shared guards on the
\* same lock file at once.
C2_Witness ==
    \E g \in guards["t1"], h \in guards["t2"] :
        /\ g.acquired = "Shared" /\ h.acquired = "Shared"
        /\ GuardPath("t1", g) = GuardPath("t2", h)
        /\ fdt["t1"][g.file].lock = "shared" /\ fdt["t2"][h.file].lock = "shared"

\* A lock_exclusive call of t is inside the OS lock call.
WaitingExclusive(t) == pc[t] = "lock" /\ req[t].mode = "Exclusive"

\* Some guard of mode m on the lock file at p exists.
GuardHeld(p, m) == \E x \in AllGuards : x[2][2] = m /\ fdt[x[1]][x[2][1]].path = p

\* Nobody holds the lock file at p.
Free(p) == Holders(p, "Shared") = {} /\ Holders(p, "Exclusive") = {}

\* The call of t has returned a guard.
ReturnedGuard(t) ==
    pc[t] = "idle" /\ result[t].kind = "Ok" /\ guards[t] # {}

\* What ends the wait of a lock_exclusive call on a free lock file: it
\* returns a guard, unless the OS call itself fails or another request for
\* the file is granted first (the OS promises no order among requests).
Settled(t) ==
    \/ ReturnedGuard(t)
    \/ osfail[t]
    \/ pc[t] = "lock" /\ OtherLocks(t, f[t], req[t].path) # {}

LockOf(mode) == IF mode = "Exclusive" THEN "exclusive" ELSE "shared"

\* C5: guard invariant.  Every guard that exists has its file open with the
\* OS lock held in exactly the mode the call that produced it asked for; a
\* guard comes into being only as the Ok result of a lock call, with that
\* call's mode; and while a guard exists nothing changes its file or lock.
C5_GuardInvariant ==
    /\ [](\A x \in AllGuards :
            /\ fdt[x[1]][x[2][1]] # NoFile
            /\ fdt[x[1]][x[2][1]].lock = LockOf(x[2][2]))
    /\ [][\A t \in Callers : \A g \in guards'[t] \ guards[t] :
            /\ pc[t] \in { "lock", "join" }
            /\ pc'[t] = "idle"
            /\ result'[t].kind = "Ok"
            /\ g.acquired = req[t].mode
            /\ GuardPath(t, g)' = req[t].path]_vars
    /\ [][\A t \in Callers : \A g \in guards[t] \cap guards'[t] :
            fdt'[t][g.file] = fdt[t][g.file]]_vars

\* A caller owns two guards at once.
C5_Witness == \E t \in Callers : Cardinality(guards[t]) = 2

\* No holder of the lock file at p stands in the way of a request of mode m.
NoConflict(p, m) ==
    IF m = "Exclusive" THEN Free(p) ELSE Holders(p, "Exclusive") = {}

\* C6: a released guard leaves no lock state behind.  Right after a guard
\* is dropped or unlocked, a request of the same mode for the same lock
\* file made through another handle can be granted, provided no other
\* conflicting guard is held.
C6_ReleaseLeavesNothingBehind ==
    [][\A t \in Callers : \A g \in guards[t] \ guards'[t] :
          \A u \in Callers :
              (/\ pc'[u] = "lock"
               /\ req'[u].path = GuardPath(t, g)
               /\ req'[u].mode = g.acquired
               /\ NoConflict(req[u].path, req[u].mode)')
                  => Grantable(u, f[u], req[u].mode)']_vars

\* A caller got a guard and has released it, and the other caller now holds
\* an exclusive guard on the same lock file.
C6_Witness ==
    \E t \in Callers, u \in Callers :
        /\ t # u
        /\ pc[t] = "idle" /\ result[t].kind = "Ok" /\ guards[t] = {}
        /\ \E h \in guards[u] :
              h.acquired = "Exclusive" /\ GuardPath(u, h) = handle[t].lock_file

\* C7: each guard is released exactly once.  Whichever of unlock and drop
\* takes a guard away, that one step closes the guard's file, which was
\* open, and with it releases the lock, touches no other file, and returns
\* nothing that could fail; and in every state a descriptor holds a lock
\* exactly when a guard (or a worker's finished call) owns it, so no state
\* lies between held and released and no guard shares its file.
C7_ReleasedExactlyOnce ==
    /\ [][\A t \in Callers : \A g \in guards[t] \ guards'[t] :
            /\ fdt[t][g.file] # NoFile
            /\ fdt'[t][g.file] = NoFile
            /\ \A d \in Callers \X Fds : d # <<t, g.file>> => fdt'[d[1]][d[2]] = fdt[d[1]][d[2]]
            /\ UNCHANGED << pc, result, osfail >>]_vars
    /\ [](\A t \in Callers : \A n \in Fds :
            /\ fdt[t][n].lock # "none"
                 <=> \/ \E g \in guards[t] : g.file = n
                     \/ pc[t] = "join" /\ result[t].kind = "Ok" /\ f[t] = n
            /\ (fdt[t][n] # NoFile /\ fdt[t][n].lock = "none")
                 <=> (pc[t] = "lock" /\ f[t] = n)
            /\ \A g \in guards[t], h \in guards[t] : g.file = h.file => g = h)

\* A caller got a guard, has released it, and has no file open any more.
C7_Witness ==
    \E t \in Callers :
        /\ pc[t] = "idle" /\ result[t].kind = "Ok"
        /\ guards[t] = {} /\ OpenFds(t) = {}

\* The file name create must derive from a name: per character, the
\* character itself if it is an ASCII letter, an ASCII digit, '-' or '_',
\* else '_'; then ".lock".
ExpectedFile(name) ==
    [i \in 1..(Len(name) + 1) |->
        IF i = Len(name) + 1 THEN ".lock"
        ELSE IF name[i] \in AsciiAlphanumeric \cup { "-", "_" } THEN name[i]
        ELSE "_"]

\* C8: create(name) fails with EmptyName exactly when every character of
\* name is whitespace (the name is empty after trimming) and then leaves
\* the caller without a new handle; otherwise it succeeds and the file name
\* is sanitize of the untrimmed name plus ".lock", so " a " gives
\* "_a_.lock".  Either way it touches no directory, file or descriptor.
C8_CreateChecksTrimmedNameOnly ==
    /\ [](\A t \in Callers :
            result[t].kind \in { "Created", "EmptyName" } =>
                LET name == result[t].name IN
                /\ result[t].kind = "EmptyName"
                      <=> \A i \in 1..Len(name) : name[i] \in Whitespace
                /\ result[t].kind = "Created"
                      => /\ handle[t].lock_file.file = ExpectedFile(name)
                         /\ name = << " ", "a", " " >>
                              => handle[t].lock_file.file = << "_", "a", "_", ".lock" >>)
    /\ [][\A t \in Callers :
            (result'[t] # result[t] /\ result'[t].kind \in { "Created", "EmptyName" })
                => /\ UNCHANGED << dirs, files, fdt >>
                   /\ result'[t].kind = "EmptyName" => handle'[t] = handle[t]]_vars

\* create(" a ") has succeeded with the file name "_a_.lock".
C8_Witness ==
    /\ result["t1"] = [kind |-> "Created", name |-> << " ", "a", " " >>]
    /\ handle["t1"].lock_file.file = << "_", "a", "_", ".lock" >>

\* The stages of a call in the order the claim gives them; the async build
\* ensures the directory on the task, hands over to the worker, and the
\* worker runs the blocking sequence.
Pipeline(b) ==
    IF b = "async" THEN << "dir", "spawn", "dir", "open", "lock" >>
    ELSE << "dir", "open", "lock" >>

\* The error kind of a stage.
KindOf(stage) ==
    CASE stage = "dir" -> "CreateDir"
      [] stage = "open" -> "OpenLockFile"
      [] stage = "lock" -> "AcquireLock"
      [] OTHER -> "JoinBlocking"

StageErrors == { "CreateDir", "OpenLockFile", "AcquireLock" }

\* C9: a lock call attempts directory-ensure, file open and OS lock in that
\* order, each at most once per pass; the first stage the environment fails
\* ends the call at once with the error kind of that stage, carrying the
\* directory (CreateDir), the file path (OpenLockFile), or the file path
\* and the requested mode as "exclusive" / "shared" (AcquireLock); a failed
\* directory-ensure or open leaves no file opened and no lock taken; an Ok
\* result means every stage was attempted.
C9_FirstFailingStageEndsTheCall ==
    /\ [](\A t \in Callers :
            LET P == Pipeline(build[t])
                n == Len(steps[t]) IN
            /\ n <= Len(P) /\ steps[t] = SubSeq(P, 1, n)
            /\ (pc[t] \in { "idle", "join" } /\ result[t].kind \in StageErrors)
                  => (n > 0 /\ KindOf(steps[t][n]) = result[t].kind /\ osfail[t])
            /\ (pc[t] \in { "idle", "join" } /\ result[t].kind = "Ok")
                  => (steps[t] = P /\ ~osfail[t])
            /\ (pc[t] \notin { "idle", "join" }) => (result[t] = NoResult /\ ~osfail[t]))
    /\ [][\A t \in Callers :
            (osfail'[t] /\ ~osfail[t]) =>
                /\ pc'[t] \in { "idle", "join" }
                /\ steps'[t] = Append(steps[t], pc[t] )
                     \/ (pc[t] = "adir" /\ steps'[t] = Append(steps[t], "dir"))
                /\ result'[t].kind = KindOf(IF pc[t] = "adir" THEN "dir" ELSE pc[t])
                /\ result'[t].kind = "CreateDir" =>
                     /\ result'[t].path = req[t].path.dir
                     /\ UNCHANGED << dirs, files, fdt >>
                /\ result'[t].kind = "OpenLockFile" =>
                     /\ result'[t].path = req[t].path
                     /\ UNCHANGED << files, fdt >>
                /\ result'[t].kind = "AcquireLock" =>
                     /\ result'[t].path = req[t].path
                     /\ req[t].mode = "Exclusive" => result'[t].mode = "exclusive"
                     /\ req[t].mode = "Shared" => result'[t].mode = "shared"
                     /\ fdt'[t][f[t]] = NoFile]_vars

\* A lock_shared call has come back with AcquireLock { mode: "shared" }
\* after attempting all three stages.
C9_Witness ==
    \E t \in Callers :
        /\ pc[t] = "idle"
        /\ result[t].kind = "AcquireLock" /\ result[t].mode = "shared"
        /\ steps[t] = Pipeline(build[t])

\* A caller is done with the operation handed out.
Done(t) == t \notin todo /\ pc[t] = "idle"

\* What a caller can observe once done: the kind of the result (and the
\* mode of AcquireLock), the file name of its handle, how many guards of
\* each mode it owns, and the OS locks its descriptors hold.  The lock
\* directory, which differs by construction, is left out.
Outcome(t) ==
    [ kind |-> result[t].kind,
      mode |-> IF result[t].kind = "AcquireLock" THEN result[t].mode ELSE "none",
      file |-> IF result[t].kind \in { "OpenLockFile", "AcquireLock" }
               THEN result[t].path.file ELSE <<>>,
      handle |-> handle[t].lock_file.file,
      guards |-> [m \in LockMode |-> Cardinality({ g \in guards[t] : g.acquired = m })],
      locks |-> [l \in { "none", "shared", "exclusive" } |->
                   Cardinality({ n \in OpenFds(t) : fdt[t][n].lock = l })] ]

\* C10: sync/async parity.  Handed the same sequence of create,
\* lock_exclusive, lock_shared and release operations under the same
\* conditions (the same stages failing, the worker running to completion),
\* the blocking build and the async build end every operation alike: the
\* same result kind, the same guards and locks held; and when one of them
\* gets through an operation so does the other (neither blocks where the
\* other returns).
C10_SyncAsyncParity ==
    /\ []((Done("t1") /\ Done("t2")) => Outcome("t1") = Outcome("t2"))
    /\ (script.op # "none" /\ Done("t1")) ~> Done("t2")
    /\ (script.op # "none" /\ Done("t2")) ~> Done("t1")

\* Both builds are back from a lock_exclusive call whose OS lock stage the
\* environment failed, each holding a shared guard from an earlier call.
C10_Witness ==
    /\ Done("t1") /\ Done("t2")
    /\ script.op = "lock" /\ script.mode = "Exclusive" /\ script.fails = { "lock" }
    /\ result["t1"].kind = "AcquireLock" /\ result["t2"].kind = "AcquireLock"
    /\ \E g \in guards["t1"] : g.acquired = "Shared"
    /\ \E g \in guards["t2"] : g.acquired = "Shared"

\* The lock call of t waits in the OS lock call for a conflicting lock to
\* go away.
Blocked(t) == pc[t] = "lock" /\ ~Grantable(t, f[t], req[t].mode)

\* C11: in the async build a lock request that waits for a conflicting
\* guard does not keep the runtime thread: its blocking sequence runs on the
\* blocking pool, every other task of the runtime can still be polled, so a
\* task of the same current-thread runtime that holds a guard can release
\* it; and once the lock file is free the waiting request is granted (unless
\* the OS call fails or another request gets the lock first).
C11_WaitingLeavesSchedulerFree ==
    /\ [](\A t \in Callers :
            pc[t] \in { "dir", "open", "lock" } =>
                /\ OnBlockingPool(t)
                /\ \A u \in Callers \ { t } :
                      /\ Poll(u)
                      /\ \A g \in guards[u] :
                            pc[u] = "idle" => ENABLED (Poll(u) /\ DropGuard(u, g) /\ Solo))
    /\ \A t \in Callers : (pc[t] = "lock" /\ Free(req[t].path)) ~> Settled(t)

\* A task's request waits in the OS lock call on the blocking pool while
\* another task of the runtime, which is idle, holds the conflicting guard.
C11_Witness ==
    \E t \in Callers, u \in Callers :
        /\ t # u /\ build[t] = "async" /\ build[u] = "async"
        /\ Blocked(t) /\ OnBlockingPool(t)
        /\ pc[u] = "idle"
        /\ \E g \in guards[u] : GuardPath(u, g) = req[t].path

\* C12: in the async build a worker that does not run to completion makes
\* the call return JoinBlocking: the step that fails the join ends the call
\* with that kind, gives the caller no guard and opens or locks nothing, and
\* no OS lock call was made; only the async build returns it.  AcquireLock
\* is returned only by a call whose OS lock call ran and failed.
C12_JoinFailureIsNotAcquireLock ==
    /\ [](\A t \in Callers :
            /\ result[t].kind = "JoinBlocking"
                  => /\ build[t] = "async" /\ pc[t] = "idle"
                     /\ steps[t] = << "dir", "spawn" >>
                     /\ ~osfail[t]
            /\ result[t].kind = "AcquireLock"
                  => /\ steps[t] # <<>> /\ steps[t][Len(steps[t])] = "lock"
                     /\ osfail[t])
    /\ [][\A t \in Callers :
            (pc[t] = "spawn" /\ pc'[t] = "idle")
                => /\ result'[t].kind = "JoinBlocking"
                   /\ UNCHANGED << guards, fdt, files >>]_vars

\* A call came back with JoinBlocking to a caller that holds a guard from
\* an earlier call, and nothing but that guard's file is open.
C12_Witness ==
    \E t \in Callers :
        /\ pc[t] = "idle" /\ result[t].kind = "JoinBlocking"
        /\ Cardinality(guards[t]) = 1
        /\ OpenFds(t) = { g.file : g \in guards[t] }

\* C13: base directory resolution.  A handle's directory is the value of
\* XPROCESS_LOCK_DIR, verbatim, when the variable is set to a non-empty
\* value, and <temp dir>/xprocess-lock when it is unset or empty.
C13_BaseDirResolution ==
    \A t \in Callers :
        result[t].kind = "Created" =>
            handle[t].lock_file.dir =
                IF lockdir[t] = Unset \/ lockdir[t] = <<>>
                THEN << TempDir, "xprocess-lock" >>
                ELSE lockdir[t]

\* The characters sanitize may let through.
Allowed == AsciiAlphanumeric \cup { "-", "_" }

\* What sanitize made of the name of the caller's last successful create:
\* the handle's file name without ".lock".
Token(t) == SubSeq(handle[t].lock_file.file, 1, Len(handle[t].lock_file.file) - 1)

\* C14: sanitize maps characters one for one and in order: a character
\* that is an ASCII letter, an ASCII digit, '-' or '_' is kept, every other
\* one, non-ASCII ones included, becomes exactly one '_'; so the output has
\* as many characters as the input, all of them among A-Z, a-z, 0-9, '-',
\* '_'.  Checked on the name every successful create was given, and,
\* before the first create, on every string of at most MaxLen characters.
C14_SanitizeOneForOne ==
    /\ \A t \in Callers :
          result[t].kind = "Created" =>
              LET name == result[t].name
                  out == Token(t) IN
              /\ Len(out) = Len(name)
              /\ \A i \in 1..Len(name) :
                    /\ name[i] \in Allowed => out[i] = name[i]
                    /\ name[i] \notin Allowed => out[i] = "_"
                    /\ out[i] \in Allowed
    /\ result["t1"] = NoResult => \A s \in AllNames(MaxLen) :
          /\ Len(sanitize(s)) = Len(s)
          /\ \A i \in 1..Len(s) :
                sanitize(s)[i] = (IF s[i] \in Allowed THEN s[i] ELSE "_")

\* create of a name with a kept letter, a non-ASCII letter and a dot has
\* given the token "a__".
C14_Witness ==
    /\ result["t1"] = [kind |-> "Created", name |-> << "a", "U+00E9", "." >>]
    /\ Token("t1") = << "a", "_", "_" >>

\* The length of a string in bytes.
RECURSIVE Bytes(_)
Bytes(s) == IF s = <<>> THEN 0 ELSE Utf8Len(Head(s)) + Bytes(Tail(s))

\* C16 as claimed: sanitize preserves the length in encoded units, a
\* non-ASCII character giving one underscore per unit of its encoding.
C16_LengthPreservingPerUnit ==
    \A t \in Callers :
        result[t].kind = "Created" => Bytes(Token(t)) = Bytes(result[t].name)

\* C16 as the code has it: sanitize preserves the length in characters, a
\* non-ASCII character giving exactly one underscore however many units
\* encode it; the output, being ASCII, has as many units as the input has
\* characters, which is fewer than the input's units exactly when the input
\* has a non-ASCII character.
C16_LengthPreservingPerChar ==
    \A t \in Callers :
        result[t].kind = "Created" =>
            LET name == result[t].name
                out == Token(t) IN
            /\ Len(out) = Len(name)
            /\ Bytes(out) = Len(name)
            /\ \A i \in 1..Len(name) : Utf8Len(name[i]) > 1 => out[i] = "_"
            /\ Bytes(out) < Bytes(name) <=> \E i \in 1..Len(name) : Utf8Len(name[i]) > 1

\* create of a name whose three-unit character stands between two kept
\* ones has given a token of three characters.
C16_Witness ==
    /\ result["t1"] = [kind |-> "Created", name |-> << "a", "U+3000", "7" >>]
    /\ Token("t1") = << "a", "_", "7" >>

\* C15: opening and locking never alter a lock file's content.  Through
\* every sequence of lock_exclusive, lock_shared and release operations a
\* file that exists stays in place with exactly the content it had (no step
\* truncates, writes or removes it; a missing file is created empty), so the
\* file found at the start still has the content it started with.
C15_ContentUntouched ==
    /\ [][\A x \in files : x \in files']_vars
    /\ [][\A y \in files' \ files :
            /\ y.data = <<>>
            /\ \A x \in files : x.path # y.path
            /\ \E t \in Callers : pc[t] = "open" /\ req[t].path = y.path]_vars
    /\ []([path |-> UsualPath, data |-> << "p", "i", "d" >>] \in files)

\* The file that was there at the start is open and locked shared by both
\* callers, still the only file and still with content.
C15_Witness ==
    /\ \A t \in Callers :
          \E g \in guards[t] : g.acquired = "Shared" /\ GuardPath(t, g) = UsualPath
    /\ \E x \in files : x.path = UsualPath /\ x.data # <<>>
    /\ Cardinality(files) = 1

\* The error kinds a lock call can return.
CallErrors == { "CreateDir", "OpenLockFile", "AcquireLock", "JoinBlocking" }

\* The descriptors the guards of t own.
GuardFds(t) == { g.file : g \in guards[t] }

\* C17: a lock call that returns an error leaves nothing of its own behind.
\* While a call is under way, and when it ends other than with Ok, the
\* caller's guards and their files and locks stay as they were when the call
\* began; and once an error is the result, in the worker's hands or
\* returned, the caller's process has no file open but those of its guards,
\* so the failed call holds no lock and no descriptor that could stand in a
\* later request's way.
C17_FailedCallLeavesNothing ==
    /\ [][\A t \in Callers :
            (pc[t] # "idle" /\ ~(pc'[t] = "idle" /\ result'[t].kind = "Ok"))
                => /\ guards'[t] = guards[t]
                   /\ \A n \in GuardFds(t) : fdt'[t][n] = fdt[t][n]]_vars
    /\ [](\A t \in Callers :
            /\ pc[t] = "idle" => OpenFds(t) = GuardFds(t)
            /\ (pc[t] \in { "idle", "join" } /\ result[t].kind \in CallErrors)
                  => /\ OpenFds(t) = GuardFds(t)
                     /\ f[t] = 0
                     /\ \A n \in OpenFds(t) : fdt[t][n].lock # "none")

\* A call came back with AcquireLock, its caller has no file open, and the
\* other caller holds an exclusive guard on the lock file the call was for.
C17_Witness ==
    \E t \in Callers, u \in Callers :
        /\ t # u
        /\ pc[t] = "idle" /\ result[t].kind = "AcquireLock" /\ OpenFds(t) = {}
        /\ \E g \in guards[u] : g.acquired = "Exclusive" /\ GuardPath(u, g) = result[t].path

\* An OS lock l stands in the way of a request of mode m.
Conflicts(l, m) == l = "exclusive" \/ (l = "shared" /\ m = "Exclusive")

\* The open file descriptions, other than the one the call of t opened,
\* whose lock on the file at the call's path (same directory, same
\* sanitized file name) stands in the way of the call.
Contenders(t) ==
    { d \in Open \ { <<t, f[t]>> } :
        /\ fdt[d[1]][d[2]].path.dir = req[t].path.dir
        /\ fdt[d[1]][d[2]].path.file = req[t].path.file
        /\ Conflicts(fdt[d[1]][d[2]].lock, req[t].mode) }

\* C18: contention goes by the derived lock file path and by nothing else.
\* A handle created for a name has the same lock file as another handle
\* exactly when the two names sanitize to the same token (both being under
\* the same base directory), so "a.b" and "a_b" share one; and a call waits
\* in the OS lock call exactly when a conflicting lock is held on the file
\* at its own path, under the shared/exclusive rules: locks on files of
\* other tokens never make it wait.
C18_ContentionByDerivedPath ==
    /\ [][\A t \in Callers :
            (result'[t] # result[t] /\ result'[t].kind = "Created") =>
                \A u \in Callers \ { t } :
                    handle[u] # NoHandle =>
                        (handle'[t].lock_file = handle[u].lock_file
                            <=> sanitize(result'[t].name) = Token(u))]_vars
    /\ [](\A t \in Callers : pc[t] = "lock" => (Blocked(t) <=> Contenders(t) # {}))
    /\ create(<< "a", ".", "b" >>, Unset) = create(<< "a", "_", "b" >>, Unset)
    /\ create(<< "a", ".", "b" >>, Unset) # create(<< "7" >>, Unset)

\* A caller holds exclusive guards on the lock files of both tokens; the
\* other caller's request for one of them waits, its handle being for that
\* token, while a lock on the other token's file is held as well.
C18_Witness ==
    \E t \in Callers, u \in Callers :
        /\ t # u
        /\ Blocked(t)
        /\ Cardinality({ GuardPath(u, g) : g \in guards[u] }) = 2
        /\ \A g \in guards[u] : g.acquired = "Exclusive"

\* A thread of the blocking build is inside the OS lock call of a
\* lock_exclusive while it owns a guard on the same lock file.
SelfBlocked(t) ==
    /\ build[t] = "blocking"
    /\ WaitingExclusive(t)
    /\ \E g \in guards[t] : GuardPath(t, g) = req[t].path

\* C19: no upgrade, no deadlock detection.  A thread of the blocking build
\* that holds a guard, shared or exclusive, and requests lock_exclusive for
\* the same lock file, through whichever handle, is never granted the lock:
\* the OS call cannot return the lock, the held guard and its lock stay as
\* they are (nothing is converted), and the thread stays inside the call,
\* which the waiting itself never ends with an error (it ends only if the
\* OS call fails of its own).
C19_NoUpgradeNoDeadlockDetection ==
    /\ [][\A t \in Callers :
            SelfBlocked(t) =>
                /\ guards'[t] = guards[t]
                /\ \A g \in guards[t] : fdt'[t][g.file] = fdt[t][g.file]
                /\ \/ SelfBlocked(t)'
                   \/ /\ osfail'[t]
                      /\ pc'[t] = "idle"
                      /\ result'[t].kind = "AcquireLock"]_vars
    /\ [](\A t \in Callers :
            SelfBlocked(t) =>
                /\ ~Grantable(t, f[t], req[t].mode)
                /\ ~ENABLED (LockStep(t, TRUE) /\ Solo)
                /\ result[t] = NoResult
                /\ \A g \in guards[t] : ~ENABLED (DropGuard(t, g) /\ Solo))

\* A thread that owns a shared guard is inside the OS lock call of a
\* lock_exclusive for the same lock file, and nobody else has it open.
C19_Witness ==
    \E t \in Callers :
        /\ SelfBlocked(t)
        /\ \E g \in guards[t] : g.acquired = "Shared" /\ GuardPath(t, g) = req[t].path
        /\ \A u \in Callers \ { t } : OpenFds(u) = {}

\* Some descriptor of t holds an OS lock that no guard of t owns.
Unowned(t) == \E n \in Fds : fdt[t][n].lock # "none" /\ n \notin GuardFds(t)

\* C20: a dropped async call leaves no lock behind.  The worker of a call
\* whose future was dropped goes on: while it waits in the OS lock call it
\* is granted the lock as soon as the lock can be granted.  The caller never
\* gets a guard from it; when the worker's output is discarded the File in
\* it is closed, leaving the caller's process with no file open but those of
\* its guards; and every OS lock that no guard owns (a finished worker's,
\* awaited or not) is in time handed over as a guard or released.
C20_CancelledCallLeavesNoLock ==
    /\ [](\A t \in Callers :
            /\ (cancelled[t] /\ pc[t] = "lock" /\ Grantable(t, f[t], req[t].mode))
                  => ENABLED (LockStep(t, TRUE) /\ Solo)
            /\ pc[t] = "idle" => (~cancelled[t] /\ OpenFds(t) = GuardFds(t)))
    /\ [][\A t \in Callers :
            cancelled[t] =>
                /\ guards'[t] = guards[t]
                /\ (pc[t] = "join" /\ pc'[t] = "idle" /\ result[t].kind = "Ok")
                      => fdt'[t][f[t]] = NoFile]_vars
    /\ \A t \in Callers : Unowned(t) ~> ~Unowned(t)

\* The worker of a dropped lock_exclusive call has obtained the lock and
\* its output has not been discarded yet; the other caller, which held a
\* guard, has released it.
C20_Witness ==
    \E t \in Callers, u \in Callers :
        /\ t # u
        /\ cancelled[t] /\ pc[t] = "join" /\ result[t].kind = "Ok"
        /\ fdt[t][f[t]].lock = "exclusive"
        /\ pc[u] = "idle" /\ result[u].kind = "Ok" /\ guards[u] = {}

====
